---- MODULE Spec2Model ----
(***************************************************************************)
(* Model of src/document.rs of mupdf-rs: the Document handle (an owning    *)
(* wrapper of a native fz_document), its fallible operations, its          *)
(* destructor, and the PageIter lazy page sequence.                        *)
(*                                                                         *)
(* The native engine is a black box: every native call that can signal     *)
(* failure either succeeds or fails, chosen nondeterministically, and      *)
(* what it returns on success is drawn from small sets.  Each action is    *)
(* one whole call of a public operation; `calls` holds the native (and     *)
(* collaborator) calls that operation made, in order, and `ret` what it    *)
(* returned to the caller.                                                 *)
(*                                                                         *)
(* Strings supplied by the caller are sequences of bytes, so that an       *)
(* embedded terminator (byte 0) is something a string can hold.  The page  *)
(* numbers are the mathematical integers: the native page count is never   *)
(* negative, so `page_count - 1` and `index += 1` stay inside i32.         *)
(***************************************************************************)
EXTENDS Integers, Sequences, FiniteSets, TLC

\* ------------------------------------------------------------------ bounds
MaxHandles == 2
MaxIters == 2
MaxPages == 2
MaxBelow == 2
MaxAbove == 5

\* --------------------------------------------------------------- the state
VARIABLES handle, res, iter, calls, ret, panicked

vars == <<handle, res, iter, calls, ret, panicked>>

Handles == 1..MaxHandles
Iters == 1..MaxIters
PageCounts == 0..MaxPages
PageArgs == (0 - MaxBelow)..(MaxPages + MaxAbove)
\* Start and end page are clamped independently of each other: each page
\* argument is tried as start page and as end page, paired with itself and
\* with its mirror image in the range.
PagePairs ==
    {<<p, p>> : p \in PageArgs}
       \cup {<<p, MaxPages + MaxAbove - MaxBelow - p>> : p \in PageArgs}
Rotations == {0, 90}

\* A null native pointer (self.inner.is_null()).
NULL == 0

\* Caller-supplied strings: one plain, one with an embedded terminator.
Strs == {<<97>>, <<97, 0, 98>>}
\* Byte contents handed to from_bytes.
ByteSeqs == {<<>>, <<37, 80>>}
\* What the native metadata lookup can hand back as a C string: bytes
\* without a terminator, ASCII (80) or never valid in UTF-8 (255).
NativeStrs == {<<>>, <<80>>, <<255>>, <<80, 255>>}

MetadataName ==
    {"Format", "Encryption", "Author", "Title", "Producer", "Creator",
     "CreationDate", "ModDate", "Subject", "Keywords"}

\* An iterator slot not in use.
NoIter == [st |-> "none", doc |-> 1, index |-> 0, total |-> 0, out |-> <<>>]

NoRet == [op |-> "none", outcome |-> "Ok", err |-> "", arg |-> <<>>, val |-> 0]

\* ------------------------------------------------------- pure functions

\* MetadataName::to_str
to_str(name) ==
    CASE name = "Format" -> "format"
      [] name = "Encryption" -> "encryption"
      [] name = "Author" -> "info:Author"
      [] name = "Title" -> "info::Title"
      [] name = "Producer" -> "info:Producer"
      [] name = "Creator" -> "info:Creator"
      [] name = "CreationDate" -> "info:CreationDate"
      [] name = "ModDate" -> "info:ModDate"
      [] name = "Subject" -> "info:Subject"
      [] name = "Keywords" -> "info:Keywords"

\* CString::new that never rejects a string.
CStringNew_Unchecked(s) == TRUE

\* CString::new(s): fails when s holds an interior 0 byte.
CStringNew(s) == \A i \in 1..Len(s) : s[i] /= 0

\* The bytes taken as they are (from_utf8_unchecked).
to_string_lossy_Unchecked(bytes) == bytes

\* CStr::to_string_lossy, on strings of ASCII bytes and bytes that can
\* never occur in UTF-8: the result is the sequence of code points, each
\* invalid byte replaced by U+FFFD (65533).
to_string_lossy(bytes) ==
    [i \in 1..Len(bytes) |-> IF bytes[i] < 128 THEN bytes[i] ELSE 65533]

\* ffi_try!: a native call that signalled failure makes the enclosing
\* function return the engine error at once.
FfiTry(ok) == IF ok THEN "Ok" ELSE "Err"

\* A start page clamped at both ends, like the end page.
ClampStart_BothBounds(start_page, page_count) ==
    IF start_page > page_count - 1 \/ start_page < 0 THEN page_count - 1 ELSE start_page

\* The start page convert_to_pdf passes on.
ClampStart(start_page, page_count) ==
    IF start_page > page_count - 1 THEN page_count - 1 ELSE start_page

\* An end page clamped from above only, like the start page.
ClampEnd_UpperOnly(end_page, page_count) ==
    IF end_page > page_count - 1 THEN page_count - 1 ELSE end_page

\* The end page convert_to_pdf passes on.
ClampEnd(end_page, page_count) ==
    IF end_page > page_count - 1 \/ end_page < 0 THEN page_count - 1 ELSE end_page

\* The null test of the destructor inverted.
DropReleases_Inverted(inner) == inner = NULL

\* Drop for Document: the guard of fz_drop_document.
DropReleases(inner) == inner /= NULL

\* ------------------------------------------------------------ helpers

NativeCall(fn, args, ok) == [fn |-> fn, args |-> args, ok |-> ok]

Result(op, outcome, err, arg, val) ==
    [op |-> op, outcome |-> outcome, err |-> err, arg |-> arg, val |-> val]

Live(h) == handle[h].st = "live"
LiveDoc(h) == Live(h) /\ handle[h].kind = "doc"

\* A shared borrow of the handle is alive (PageIter<'a> holds &'a Document).
Borrowed(h) == \E i \in Iters : iter[i].st = "live" /\ iter[i].doc = h

FreeHandles == {h \in Handles : handle[h].st = "none"}
FreshHandle == CHOOSE h \in FreeHandles : \A g \in FreeHandles : h <= g
FreeRes == {r \in Handles : ~res[r].alloc}
FreshRes == CHOOSE r \in FreeRes : \A q \in FreeRes : r <= q
FreeIters == {i \in Iters : iter[i].st = "none"}
FreshIter == CHOOSE i \in FreeIters : \A j \in FreeIters : i <= j

\* The native layer hands out a new document resource with `pages` pages
\* (a released document has none left to count).
NativeAlloc(r, pages) ==
    [res EXCEPT ![r] = [alloc |-> TRUE, drops |-> 0, pages |-> pages]]

\* The wrapper takes ownership of resource r: Self { inner }.
NewHandle(h, kind, r) ==
    [handle EXCEPT ![h] = [st |-> "live", kind |-> kind, inner |-> r]]

\* ---------------------------------------------------------------- Init

Init ==
    /\ handle = [h \in Handles |-> [st |-> "none", kind |-> "doc", inner |-> NULL]]
    /\ res = [r \in Handles |-> [alloc |-> FALSE, drops |-> 0, pages |-> 0]]
    /\ iter = [i \in Iters |-> NoIter]
    /\ calls = <<>>
    /\ ret = NoRet
    /\ panicked = FALSE

\* -------------------------------------------------------- construction

\* Document::open
Open(filename, ok, pages) ==
    /\ ~panicked
    /\ FreeHandles /= {}
    /\ UNCHANGED <<iter, panicked>>
    /\ IF ~CStringNew(filename)
       THEN /\ calls' = <<>>
            /\ ret' = Result("open", "Err", "InvalidInput", filename, 0)
            /\ UNCHANGED <<handle, res>>
       ELSE /\ calls' = <<NativeCall("mupdf_open_document", <<filename>>, ok)>>
            /\ IF FfiTry(ok) = "Err"
               THEN /\ ret' = Result("open", "Err", "Engine", filename, 0)
                    /\ UNCHANGED <<handle, res>>
               ELSE /\ res' = NativeAlloc(FreshRes, pages)
                    /\ handle' = NewHandle(FreshHandle, "doc", FreshRes)
                    /\ ret' = Result("open", "Ok", "", filename, FreshHandle)

\* Document::from_bytes
FromBytes(bytes, magic, wrote, ok, pages) ==
    /\ ~panicked
    /\ FreeHandles /= {}
    /\ UNCHANGED <<iter, panicked>>
    /\ IF ~CStringNew(magic)
       THEN /\ calls' = <<>>
            /\ ret' = Result("from_bytes", "Err", "InvalidInput", magic, 0)
            /\ UNCHANGED <<handle, res>>
       ELSE LET with_capacity == NativeCall("Buffer::with_capacity", <<Len(bytes)>>, TRUE)
                write == NativeCall("Buffer::write", <<bytes>>, wrote)
                open == NativeCall("mupdf_open_document_from_bytes", <<magic>>, ok)
            IN  IF ~wrote
                THEN /\ calls' = <<with_capacity, write>>
                     /\ ret' = Result("from_bytes", "Err", "Io", magic, 0)
                     /\ UNCHANGED <<handle, res>>
                ELSE /\ calls' = <<with_capacity, write, open>>
                     /\ IF FfiTry(ok) = "Err"
                        THEN /\ ret' = Result("from_bytes", "Err", "Engine", magic, 0)
                             /\ UNCHANGED <<handle, res>>
                        ELSE /\ res' = NativeAlloc(FreshRes, pages)
                             /\ handle' = NewHandle(FreshHandle, "doc", FreshRes)
                             /\ ret' = Result("from_bytes", "Ok", "", magic, FreshHandle)

\* Document::recognize
Recognize(magic, ok, known) ==
    /\ ~panicked
    /\ UNCHANGED <<handle, res, iter, panicked>>
    /\ IF ~CStringNew(magic)
       THEN /\ calls' = <<>>
            /\ ret' = Result("recognize", "Err", "InvalidInput", magic, FALSE)
       ELSE /\ calls' = <<NativeCall("mupdf_recognize_document", <<magic>>, ok)>>
            /\ ret' = IF FfiTry(ok) = "Err"
                      THEN Result("recognize", "Err", "Engine", magic, FALSE)
                      ELSE Result("recognize", "Ok", "", magic, known)

\* ---------------------------------------------------------- destruction

\* impl Drop for Document.  The owner's scope ends once per handle, and not
\* while a PageIter still borrows the handle.
Drop(h) ==
    /\ LiveDoc(h)
    /\ ~Borrowed(h)
    /\ LET inner == handle[h].inner
       IN  IF DropReleases(inner)
           THEN /\ calls' = <<NativeCall("fz_drop_document", <<inner>>, TRUE)>>
                /\ res' = [res EXCEPT ![inner].drops = @ + 1, ![inner].pages = 0]
           ELSE /\ calls' = <<>>
                /\ UNCHANGED res
    /\ handle' = [handle EXCEPT ![h].st = "dropped"]
    /\ ret' = Result("drop", "Ok", "", <<h>>, 0)
    /\ UNCHANGED <<iter, panicked>>

\* The destructor of the PdfDocument that convert_to_pdf returned: it
\* releases its own native document, whatever became of the source handle.
DropPdf(h) ==
    /\ Live(h)
    /\ handle[h].kind = "pdf"
    /\ LET inner == handle[h].inner
       IN  /\ calls' = <<NativeCall("fz_drop_document", <<inner>>, TRUE)>>
           /\ res' = [res EXCEPT ![inner].drops = @ + 1, ![inner].pages = 0]
    /\ handle' = [handle EXCEPT ![h].st = "dropped"]
    /\ ret' = Result("drop", "Ok", "", <<h>>, 0)
    /\ UNCHANGED <<iter, panicked>>

\* A PageIter goes out of scope; it owns nothing, the borrow ends.
DropIter(i) ==
    /\ iter[i].st = "live"
    /\ iter' = [iter EXCEPT ![i] = NoIter]
    /\ calls' = <<>>
    /\ ret' = Result("drop_iter", "Ok", "", <<i>>, 0)
    /\ UNCHANGED <<handle, res, panicked>>

\* ------------------------------------------------------------ inspection

\* Document::needs_password
NeedsPassword(h, ok, needs) ==
    /\ ~panicked
    /\ LiveDoc(h)
    /\ calls' = <<NativeCall("mupdf_needs_password", <<handle[h].inner>>, ok)>>
    /\ ret' = IF FfiTry(ok) = "Err"
              THEN Result("needs_password", "Err", "Engine", <<h>>, FALSE)
              ELSE Result("needs_password", "Ok", "", <<h>>, needs)
    /\ UNCHANGED <<handle, res, iter, panicked>>

\* Document::authenticate (&mut self: no PageIter borrows the handle)
Authenticate(h, password, ok, good) ==
    /\ ~panicked
    /\ LiveDoc(h)
    /\ ~Borrowed(h)
    /\ UNCHANGED <<handle, res, iter, panicked>>
    /\ IF ~CStringNew(password)
       THEN /\ calls' = <<>>
            /\ ret' = Result("authenticate", "Err", "InvalidInput", password, FALSE)
       ELSE /\ calls' = <<NativeCall("mupdf_authenticate_password",
                                     <<handle[h].inner, password>>, ok)>>
            /\ ret' = IF FfiTry(ok) = "Err"
                      THEN Result("authenticate", "Err", "Engine", password, FALSE)
                      ELSE Result("authenticate", "Ok", "", password, good)

\* The native page-count call on handle h.
CountCall(h, ok) == NativeCall("mupdf_document_page_count", <<handle[h].inner>>, ok)

\* Document::page_count
PageCount(h, ok) ==
    /\ ~panicked
    /\ LiveDoc(h)
    /\ calls' = <<CountCall(h, ok)>>
    /\ ret' = IF FfiTry(ok) = "Err"
              THEN Result("page_count", "Err", "Engine", <<h>>, 0)
              ELSE Result("page_count", "Ok", "", <<h>>, res[handle[h].inner].pages)
    /\ UNCHANGED <<handle, res, iter, panicked>>

\* Document::metadata.  found is what the native lookup handed back:
\* <<>> for a null pointer, <<bytes>> for a C string.
Metadata(h, name, ok, found) ==
    /\ ~panicked
    /\ LiveDoc(h)
    /\ UNCHANGED <<handle, res, iter, panicked>>
    /\ LET lookup == NativeCall("mupdf_lookup_metadata",
                                <<handle[h].inner, to_str(name)>>, ok)
           arg == <<name, found>>
       IN  IF FfiTry(ok) = "Err"
           THEN /\ calls' = <<lookup>>
                /\ ret' = Result("metadata", "Err", "Engine", arg, <<>>)
           ELSE IF found = <<>>
                THEN /\ calls' = <<lookup>>
                     /\ ret' = Result("metadata", "Ok", "", arg, <<>>)
                ELSE /\ calls' = <<lookup, NativeCall("mupdf_drop_str", found, TRUE)>>
                     /\ ret' = Result("metadata", "Ok", "", arg, to_string_lossy(found[1]))

\* Document::resolve_link.  n is what the native layer resolved the uri to.
ResolveLink(h, uri, ok, n) ==
    /\ ~panicked
    /\ LiveDoc(h)
    /\ UNCHANGED <<handle, res, iter, panicked>>
    /\ IF ~CStringNew(uri)
       THEN /\ calls' = <<>>
            /\ ret' = Result("resolve_link", "Err", "InvalidInput", uri, 0)
       ELSE /\ calls' = <<NativeCall("mupdf_resolve_link", <<handle[h].inner, uri>>, ok)>>
            /\ ret' = IF FfiTry(ok) = "Err"
                      THEN Result("resolve_link", "Err", "Engine", uri, 0)
                      ELSE IF n >= 0
                           THEN Result("resolve_link", "Ok", "", uri, <<n>>)
                           ELSE Result("resolve_link", "Ok", "", uri, <<>>)

\* Document::is_reflowable
IsReflowable(h, ok, reflowable) ==
    /\ ~panicked
    /\ LiveDoc(h)
    /\ calls' = <<NativeCall("mupdf_is_document_reflowable", <<handle[h].inner>>, ok)>>
    /\ ret' = IF FfiTry(ok) = "Err"
              THEN Result("is_reflowable", "Err", "Engine", <<h>>, FALSE)
              ELSE Result("is_reflowable", "Ok", "", <<h>>, reflowable)
    /\ UNCHANGED <<handle, res, iter, panicked>>

\* Document::is_pdf: pdf_specifics cannot signal failure.
IsPdf(h, specifics) ==
    /\ ~panicked
    /\ LiveDoc(h)
    /\ calls' = <<NativeCall("pdf_specifics", <<handle[h].inner>>, TRUE)>>
    /\ ret' = Result("is_pdf", "Ok", "", <<h>>, specifics /= NULL)
    /\ UNCHANGED <<handle, res, iter, panicked>>

\* -------------------------------------------------------- transformation

\* Document::convert_to_pdf
ConvertToPdf(h, start_page, end_page, rotate, okCount, ok) ==
    /\ ~panicked
    /\ LiveDoc(h)
    /\ FreeHandles /= {}
    /\ UNCHANGED <<iter, panicked>>
    /\ LET arg == <<h, start_page, end_page, rotate>>
           page_count == res[handle[h].inner].pages
           convert == NativeCall("mupdf_convert_to_pdf",
                                 <<handle[h].inner, ClampStart(start_page, page_count),
                                   ClampEnd(end_page, page_count), rotate>>, ok)
       IN  IF FfiTry(okCount) = "Err"
           THEN /\ calls' = <<CountCall(h, okCount)>>
                /\ ret' = Result("convert_to_pdf", "Err", "Engine", arg, 0)
                /\ UNCHANGED <<handle, res>>
           ELSE /\ calls' = <<CountCall(h, okCount), convert>>
                /\ IF FfiTry(ok) = "Err"
                   THEN /\ ret' = Result("convert_to_pdf", "Err", "Engine", arg, 0)
                        /\ UNCHANGED <<handle, res>>
                   ELSE /\ res' = NativeAlloc(FreshRes, 0)
                        /\ handle' = NewHandle(FreshHandle, "pdf", FreshRes)
                        /\ ret' = Result("convert_to_pdf", "Ok", "", arg, FreshHandle)

\* Document::layout (&mut self).  Reflowing may change the page count.
Layout(h, ok, pages) ==
    /\ ~panicked
    /\ LiveDoc(h)
    /\ ~Borrowed(h)
    /\ calls' = <<NativeCall("mupdf_layout_document", <<handle[h].inner>>, ok)>>
    /\ IF FfiTry(ok) = "Err"
       THEN /\ ret' = Result("layout", "Err", "Engine", <<h>>, 0)
            /\ UNCHANGED res
       ELSE /\ ret' = Result("layout", "Ok", "", <<h>>, 0)
            /\ res' = [res EXCEPT ![handle[h].inner].pages = pages]
    /\ UNCHANGED <<handle, iter, panicked>>

\* ----------------------------------------------------------- page access

\* The native page load: a page outside the document is always refused,
\* a page inside it may still fail to load.
LoadCall(h, page_no, ok) ==
    NativeCall("mupdf_load_page", <<handle[h].inner, page_no>>,
               ok /\ 0 <= page_no /\ page_no < res[handle[h].inner].pages)

\* Document::load_page
LoadPage(h, page_no, ok) ==
    /\ ~panicked
    /\ LiveDoc(h)
    /\ calls' = <<LoadCall(h, page_no, ok)>>
    /\ ret' = IF FfiTry(LoadCall(h, page_no, ok).ok) = "Err"
              THEN Result("load_page", "Err", "Engine", <<h, page_no>>, 0)
              ELSE Result("load_page", "Ok", "", <<h, page_no>>, page_no)
    /\ UNCHANGED <<handle, res, iter, panicked>>

\* A PageIter that does not start at the first page.
NewPageIter_NotReset(h, total) ==
    [st |-> "live", doc |-> h, index |-> 1, total |-> total, out |-> <<>>]

\* The PageIter that pages() builds.
NewPageIter(h, total) ==
    [st |-> "live", doc |-> h, index |-> 0, total |-> total, out |-> <<>>]

\* Document::pages
Pages(h, ok) ==
    /\ ~panicked
    /\ LiveDoc(h)
    /\ FreeIters /= {}
    /\ calls' = <<CountCall(h, ok)>>
    /\ IF FfiTry(ok) = "Err"
       THEN /\ ret' = Result("pages", "Err", "Engine", <<h>>, 0)
            /\ UNCHANGED iter
       ELSE /\ ret' = Result("pages", "Ok", "", <<h>>, FreshIter)
            /\ iter' = [iter EXCEPT ![FreshIter] =
                           NewPageIter(h, res[handle[h].inner].pages)]
    /\ UNCHANGED <<handle, res, panicked>>

\* IntoIterator for &Document and &mut Document: self.pages().unwrap()
IntoIter(h, ok) ==
    /\ ~panicked
    /\ LiveDoc(h)
    /\ FreeIters /= {}
    /\ calls' = <<CountCall(h, ok)>>
    /\ IF FfiTry(ok) = "Err"
       THEN /\ ret' = Result("into_iter", "Panic", "Engine", <<h>>, 0)
            /\ panicked' = TRUE
            /\ UNCHANGED iter
       ELSE /\ ret' = Result("into_iter", "Ok", "", <<h>>, FreshIter)
            /\ iter' = [iter EXCEPT ![FreshIter] =
                           NewPageIter(h, res[handle[h].inner].pages)]
            /\ UNCHANGED panicked
    /\ UNCHANGED <<handle, res>>

\* An index advanced past the following page.
Advance_Skip(index) == index + 2

\* The index PageIter::next leaves behind after producing an element.
Advance(index) == index + 1

\* An exhaustion test that lets one more page through.
Exhausted_OffByOne(index, total) == index > total

\* PageIter::next has nothing left to produce.
Exhausted(index, total) == index >= total

\* Iterator::next for PageIter
IterNext(i, ok) ==
    /\ ~panicked
    /\ iter[i].st = "live"
    /\ UNCHANGED <<handle, res, panicked>>
    /\ LET it == iter[i]
           load == LoadCall(it.doc, it.index, ok)
       IN  IF Exhausted(it.index, it.total)
           THEN /\ calls' = <<>>
                /\ ret' = Result("next", "None", "", <<i>>, 0)
                /\ UNCHANGED iter
           ELSE /\ calls' = <<load>>
                /\ ret' = Result("next", "Some", "", <<i>>,
                                 [page |-> it.index, res |-> FfiTry(load.ok)])
                /\ iter' = [iter EXCEPT
                              ![i].index = Advance(it.index),
                              ![i].out = Append(@, [page |-> it.index,
                                                    res |-> FfiTry(load.ok)])]

\* ---------------------------------------------------------------- Next

PlainStrs == {s \in Strs : CStringNew(s)}
Found == {<<>>} \cup {<<v>> : v \in NativeStrs}

\* Construction, conversion, borrowing and destruction of handles.
NextLife ==
    \/ \E s \in Strs, ok \in BOOLEAN, n \in PageCounts : Open(s, ok, n)
    \/ \E b \in ByteSeqs, s \in Strs, w \in BOOLEAN, ok \in BOOLEAN, n \in PageCounts :
          FromBytes(b, s, w, ok, n)
    \/ \E h \in Handles, okc \in BOOLEAN, ok \in BOOLEAN :
          ConvertToPdf(h, 0, -1, 0, okc, ok)
    \/ \E h \in Handles, ok \in BOOLEAN : Pages(h, ok)
    \/ \E h \in Handles, ok \in BOOLEAN : IntoIter(h, ok)
    \/ \E i \in Iters : DropIter(i)
    \/ \E h \in Handles : Drop(h)
    \/ \E h \in Handles : DropPdf(h)

SpecLife == Init /\ [][NextLife]_vars

\* The operations that marshal a caller-supplied string.
NextStr ==
    \/ \E s \in Strs, ok \in BOOLEAN : Open(s, ok, 1)
    \/ \E b \in ByteSeqs, s \in Strs, w \in BOOLEAN, ok \in BOOLEAN :
          FromBytes(b, s, w, ok, 1)
    \/ \E s \in Strs, ok \in BOOLEAN, k \in BOOLEAN : Recognize(s, ok, k)
    \/ \E h \in Handles, s \in Strs, ok \in BOOLEAN, b \in BOOLEAN :
          Authenticate(h, s, ok, b)
    \/ \E h \in Handles, s \in Strs, ok \in BOOLEAN, n \in {-1, 0, 1} :
          ResolveLink(h, s, ok, n)
    \/ \E h \in Handles, ok \in BOOLEAN : Pages(h, ok)
    \/ \E i \in Iters : DropIter(i)
    \/ \E h \in Handles : Drop(h)

SpecStr == Init /\ [][NextStr]_vars

\* Page iteration over one open document at a time, whose page count
\* reflowing can change.
NextIter ==
    \/ \E s \in PlainStrs, n \in PageCounts :
          (\A h \in Handles : ~Live(h)) /\ Open(s, TRUE, n)
    \/ \E h \in Handles, ok \in BOOLEAN, n \in PageCounts : Layout(h, ok, n)
    \/ \E h \in Handles, ok \in BOOLEAN : Pages(h, ok)
    \/ \E h \in Handles, ok \in BOOLEAN : IntoIter(h, ok)
    \/ \E i \in Iters, ok \in BOOLEAN : IterNext(i, ok)
    \/ \E i \in Iters : DropIter(i)
    \/ \E h \in Handles : Drop(h)

SpecIter == Init /\ [][NextIter]_vars

\* Conversion over the whole range of page arguments.
NextConvert ==
    \/ \E s \in PlainStrs, n \in PageCounts : Open(s, TRUE, n)
    \/ \E h \in Handles, p \in PagePairs, r \in Rotations,
          okc \in BOOLEAN, ok \in BOOLEAN : ConvertToPdf(h, p[1], p[2], r, okc, ok)
    \/ \E h \in Handles : Drop(h)
    \/ \E h \in Handles : DropPdf(h)

SpecConvert == Init /\ [][NextConvert]_vars

\* Metadata lookup.
NextMeta ==
    \/ \E s \in PlainStrs, n \in PageCounts : Open(s, TRUE, n)
    \/ \E h \in Handles, name \in MetadataName, ok \in BOOLEAN, found \in Found :
          Metadata(h, name, ok, found)
    \/ \E h \in Handles : Drop(h)

SpecMeta == Init /\ [][NextMeta]_vars

\* Every public operation, on the smallest inputs.
Next ==
    \/ \E s \in Strs, ok \in BOOLEAN : Open(s, ok, 1)
    \/ \E s \in Strs, w \in BOOLEAN, ok \in BOOLEAN : FromBytes(<<>>, s, w, ok, 1)
    \/ \E s \in Strs, ok \in BOOLEAN : Recognize(s, ok, TRUE)
    \/ \E h \in Handles, ok \in BOOLEAN : NeedsPassword(h, ok, FALSE)
    \/ \E h \in Handles, s \in Strs, ok \in BOOLEAN : Authenticate(h, s, ok, TRUE)
    \/ \E h \in Handles, ok \in BOOLEAN : PageCount(h, ok)
    \/ \E h \in Handles, ok \in BOOLEAN, found \in {<<>>, <<<<80>>>>} :
          Metadata(h, "Author", ok, found)
    \/ \E h \in Handles, s \in Strs, ok \in BOOLEAN, n \in {-1, 0} :
          ResolveLink(h, s, ok, n)
    \/ \E h \in Handles, ok \in BOOLEAN : IsReflowable(h, ok, TRUE)
    \/ \E h \in Handles, p \in {NULL, 1} : IsPdf(h, p)
    \/ \E h \in Handles, okc \in BOOLEAN, ok \in BOOLEAN :
          ConvertToPdf(h, 0, -1, 0, okc, ok)
    \/ \E h \in Handles, ok \in BOOLEAN : Layout(h, ok, 1)
    \/ \E h \in Handles, p \in {0, 1}, ok \in BOOLEAN : LoadPage(h, p, ok)
    \/ \E h \in Handles, ok \in BOOLEAN : Pages(h, ok)
    \/ \E h \in Handles, ok \in BOOLEAN : IntoIter(h, ok)
    \/ \E i \in Iters, ok \in BOOLEAN : IterNext(i, ok)
    \/ \E i \in Iters : DropIter(i)
    \/ \E h \in Handles : Drop(h)
    \/ \E h \in Handles : DropPdf(h)

Spec == Init /\ [][Next]_vars

\* ============================================================== claims

Owners(r) == {h \in Handles : handle[h].st /= "none" /\ handle[h].inner = r}
Constructors == {"open", "from_bytes", "convert_to_pdf"}
DropCalls == {k \in 1..Len(calls) : calls[k].fn = "fz_drop_document"}

\* C1: the native document of every constructed handle is released exactly
\* once, at that handle's destruction: a resource the native layer handed
\* out has exactly one owning handle, it has been released once when that
\* handle is destroyed and not at all while it lives; a failed construction
\* hands out no resource, yields no handle and runs no release.
C1_ReleasedExactlyOnce ==
    /\ \A r \in Handles :
          IF res[r].alloc
          THEN /\ Cardinality(Owners(r)) = 1
               /\ \A h \in Owners(r) :
                     res[r].drops = IF handle[h].st = "dropped" THEN 1 ELSE 0
          ELSE Owners(r) = {} /\ res[r].drops = 0
    /\ \A h \in Handles : handle[h].st /= "none" => handle[h].inner /= NULL
    /\ ret.op \in Constructors =>
          /\ DropCalls = {}
          /\ ret.outcome = "Err" =>
                Cardinality({h \in Handles : handle[h].st /= "none"})
                   = Cardinality({r \in Handles : res[r].alloc})
    /\ ret.op = "drop" =>
          /\ DropCalls = {1}
          /\ Len(calls) = 1
          /\ calls[1].args = <<handle[ret.arg[1]].inner>>

\* C1 witness: the source handle has just been destroyed and released while
\* the handle converted from it lives on, unreleased.
C1_Witness ==
    /\ \E h \in Handles, g \in Handles :
          /\ handle[h].kind = "doc" /\ handle[h].st = "dropped"
          /\ handle[g].kind = "pdf" /\ handle[g].st = "live"
          /\ res[handle[h].inner].drops = 1
          /\ res[handle[g].inner].drops = 0
    /\ ret.op = "drop"

\* The element that the last next call produced is the load of that page.
LastNextIsLoad ==
    ret.op = "next" =>
       LET it == iter[ret.arg[1]]
       IN  IF ret.outcome = "Some"
           THEN /\ Len(calls) = 1
                /\ calls[1].fn = "mupdf_load_page"
                /\ calls[1].args = <<handle[it.doc].inner, it.index - 1>>
                /\ ret.val = it.out[Len(it.out)]
                /\ ret.val.page = it.index - 1
                /\ ret.val.res = IF calls[1].ok THEN "Ok" ELSE "Err"
           ELSE /\ ret.outcome = "None"
                /\ ret.err = ""
                /\ calls = <<>>
                /\ Len(it.out) = it.total

\* C2: an iterator over n pages produces exactly n elements, the k-th being
\* the result of load_page(k), failed or not, in increasing order; a failed
\* load does not stop it; after the n-th, next returns none, loading nothing.
C2_IteratorProtocol ==
    /\ \A i \in Iters : iter[i].st /= "none" =>
          /\ iter[i].total = res[handle[iter[i].doc].inner].pages
          /\ Len(iter[i].out) = iter[i].index
          /\ Len(iter[i].out) <= iter[i].total
          /\ \A k \in 1..Len(iter[i].out) : iter[i].out[k].page = k - 1
    /\ LastNextIsLoad

\* C2 witness: an exhausted iterator over two pages whose first load failed
\* and whose second succeeded, asked once more.
C2_Witness ==
    /\ ret.op = "next" /\ ret.outcome = "None"
    /\ iter[ret.arg[1]].total = 2
    /\ iter[ret.arg[1]].out = <<[page |-> 0, res |-> "Err"], [page |-> 1, res |-> "Ok"]>>

\* C4: a native call that fails during any public operation reaches the
\* caller as a typed error result (for next, as the failed element); no
\* operation panics.
C4_NativeFailureIsTypedError ==
    /\ ret.outcome /= "Panic"
    /\ ~panicked
    /\ \A k \in 1..Len(calls) : ~calls[k].ok =>
          IF ret.op = "next"
          THEN ret.outcome = "Some" /\ ret.val.res = "Err"
          ELSE ret.outcome = "Err"

\* C6 (state part): pages() and into_iter return a fresh iterator at index 0
\* whose total is the page count read at that call, and two iterators over
\* the same handle with the same total produce the same page indices.
FreshIterator ==
    /\ (ret.op \in {"pages", "into_iter"} /\ ret.outcome = "Ok") =>
          iter[ret.val] = [st |-> "live", doc |-> ret.arg[1], index |-> 0,
                           total |-> res[handle[ret.arg[1]].inner].pages,
                           out |-> <<>>]
    /\ \A i \in Iters, j \in Iters :
          (/\ iter[i].st /= "none" /\ iter[j].st /= "none"
           /\ iter[i].doc = iter[j].doc /\ iter[i].total = iter[j].total) =>
             /\ \A k \in 1..Len(iter[i].out) :
                   k <= Len(iter[j].out) => iter[i].out[k].page = iter[j].out[k].page
             /\ (iter[i].index = iter[i].total /\ iter[j].index = iter[j].total) =>
                   /\ Len(iter[i].out) = iter[i].total
                   /\ Len(iter[j].out) = iter[i].total
                   /\ \A k \in 1..iter[i].total :
                         iter[i].out[k].page = k - 1 /\ iter[j].out[k].page = k - 1

\* C6 (step part): a next call on one iterator changes no other iterator.
OthersUntouched ==
    ret'.op = "next" => \A j \in Iters : j /= ret'.arg[1] => iter'[j] = iter[j]

\* C6: every pages() call returns a fresh iterator at index 0 with the page
\* count read at that call; iterators over one handle are independent, and
\* one obtained after another was exhausted yields the same page indices.
C6_FreshIndependentIterators == [](FreshIterator) /\ [][OthersUntouched]_vars

\* C6 witness: a second iterator, obtained on the same handle after the
\* first was exhausted, has itself produced both pages.
C6_Witness ==
    /\ iter[1].st /= "none" /\ iter[2].st = "live"
    /\ iter[1].doc = iter[2].doc
    /\ iter[1].total = 2 /\ iter[2].total = 2
    /\ iter[1].index = 2 /\ iter[2].index = 2
    /\ ret.op = "next" /\ ret.arg = <<2>>

\* C8 (state part): 0 <= index <= total in every iterator.
IndexInRange ==
    \A i \in Iters : iter[i].st /= "none" =>
       0 <= iter[i].index /\ iter[i].index <= iter[i].total

\* C8 (step part): while an iterator lives its total never changes; a next call leaves
\* the index alone when exhausted and else adds exactly one; nothing else
\* moves an index.
IndexSteps ==
    \A i \in Iters : (iter[i].st = "live" /\ iter'[i].st = "live") =>
       /\ iter'[i].total = iter[i].total
       /\ IF ret'.op = "next" /\ ret'.arg = <<i>>
          THEN IF iter[i].index = iter[i].total
               THEN ret'.outcome = "None" /\ iter'[i].index = iter[i].index
               ELSE ret'.outcome = "Some" /\ iter'[i].index = iter[i].index + 1
          ELSE iter'[i].index = iter[i].index

\* C8: in every reachable state of every page iterator 0 <= index <= total,
\* total never changes, and each next call leaves index unchanged
\* (exhausted) or increases it by exactly one.
C8_IndexBounds == [](IndexInRange) /\ [][IndexSteps]_vars

\* C8 witness: next was called on an iterator already at index = total = 2.
C8_Witness ==
    /\ ret.op = "next" /\ ret.outcome = "None"
    /\ iter[ret.arg[1]].index = 2 /\ iter[ret.arg[1]].total = 2
    /\ res[handle[iter[ret.arg[1]].doc].inner].pages = 2

StringOps == {"open", "from_bytes", "recognize", "authenticate", "resolve_link"}
HasTerminator(s) == \E k \in 1..Len(s) : s[k] = 0

\* C7 (state part): an operation given a string with an embedded terminator
\* returns the invalid-input error and has made no native call.
RejectedUnmarshalled ==
    (ret.op \in StringOps /\ HasTerminator(ret.arg)) =>
       /\ ret.outcome = "Err"
       /\ ret.err = "InvalidInput"
       /\ calls = <<>>

\* C7 (step part): such a call produces no handle and changes no handle,
\* native resource or iterator.
RejectionChangesNothing ==
    (ret'.op \in StringOps /\ HasTerminator(ret'.arg)) =>
       handle' = handle /\ res' = res /\ iter' = iter /\ panicked' = panicked

\* C7: a caller-supplied string with an embedded terminator makes open,
\* from_bytes, recognize, authenticate and resolve_link return an
\* invalid-input error at once, with no native call, no handle produced
\* and every existing handle unchanged.
C7_EmbeddedTerminatorRejected ==
    [](RejectedUnmarshalled) /\ [][RejectionChangesNothing]_vars

\* C7 witness: authenticate on a live handle was given such a password.
C7_Witness ==
    /\ ret.op = "authenticate" /\ HasTerminator(ret.arg)
    /\ ret.err = "InvalidInput"
    /\ \E h \in Handles : LiveDoc(h)

\* The last operation was a convert_to_pdf that reached the native
\* conversion call.
Converted == ret.op = "convert_to_pdf" /\ Len(calls) = 2
ConvCount == res[handle[ret.arg[1]].inner].pages
ConvStartIn == ret.arg[2]
ConvEndIn == ret.arg[3]
ConvStartOut == calls[2].args[2]
ConvEndOut == calls[2].args[3]

\* C3: convert_to_pdf passes startPage' = (start_page > count-1 ? count-1 :
\* start_page) and endPage' = ((end_page > count-1 or end_page < 0) ?
\* count-1 : end_page) to the native conversion call; a negative start_page
\* is passed unchanged, start_page = count+5 becomes count-1, and
\* end_page = -1 or count+5 becomes count-1.
C3_ClampedRange ==
    Converted =>
       /\ calls[1].fn = "mupdf_document_page_count" /\ calls[1].ok
       /\ calls[2].fn = "mupdf_convert_to_pdf"
       /\ calls[2].args[1] = handle[ret.arg[1]].inner
       /\ calls[2].args[4] = ret.arg[4]
       /\ ConvStartOut = IF ConvStartIn > ConvCount - 1
                         THEN ConvCount - 1 ELSE ConvStartIn
       /\ ConvEndOut = IF ConvEndIn > ConvCount - 1 \/ ConvEndIn < 0
                       THEN ConvCount - 1 ELSE ConvEndIn
       /\ ConvStartIn < 0 => ConvStartOut = ConvStartIn
       /\ ConvStartIn = ConvCount + 5 => ConvStartOut = ConvCount - 1
       /\ ConvEndIn \in {-1, ConvCount + 5} => ConvEndOut = ConvCount - 1

\* C3 witness: a two-page document converted from start_page -2 to
\* end_page count+5.
C3_Witness ==
    /\ Converted
    /\ ConvCount = 2
    /\ ConvStartIn = -2 /\ ConvStartOut = -2
    /\ ConvEndIn = 7 /\ ConvEndOut = 1

\* C9 as claimed: for every count, count = 0 included, the end page passed
\* to the native conversion call is never negative and never above count-1.
C9_EndPageWithinBothBounds ==
    Converted => 0 <= ConvEndOut /\ ConvEndOut <= ConvCount - 1

\* C9 amended: the end page passed on is never above count-1 and never below
\* -1; it is never negative when the document has a page, and is -1 for
\* every end_page when the document is empty.
C9_EndPageClamped ==
    Converted =>
       /\ ConvEndOut <= ConvCount - 1
       /\ ConvCount >= 1 => 0 <= ConvEndOut
       /\ ConvCount = 0 => ConvEndOut = -1

\* C9 witness: a negative end page on a document with pages, clamped to
\* the last page.
C9_Witness ==
    /\ Converted
    /\ ConvCount = 2
    /\ ConvEndIn = -2 /\ ConvEndOut = 1

MetadataDone == ret.op = "metadata" /\ calls[1].ok
MetaFound == ret.arg[2]

\* C5 as claimed: a lookup that does not fail returns success, with the
\* empty string when the native layer reports no value and with exactly the
\* native value when it reports one.
C5_ValueReturnedAsIs ==
    MetadataDone =>
       /\ ret.outcome = "Ok"
       /\ MetaFound = <<>> => ret.val = <<>>
       /\ MetaFound /= <<>> => ret.val = MetaFound[1]

\* C5 amended: for each of the ten keys a lookup that does not fail returns
\* success, with the empty string when the native layer reports no value,
\* and otherwise with the native value decoded as UTF-8, every byte that is
\* not valid UTF-8 replaced by U+FFFD: so exactly that value when it is
\* valid UTF-8.
C5_AbsentIsEmptyValueIsDecoded ==
    MetadataDone =>
       /\ ret.outcome = "Ok"
       /\ ret.arg[1] \in MetadataName
       /\ MetaFound = <<>> => ret.val = <<>> /\ Len(calls) = 1
       /\ MetaFound /= <<>> =>
             /\ Len(ret.val) = Len(MetaFound[1])
             /\ \A k \in 1..Len(ret.val) :
                   ret.val[k] = IF MetaFound[1][k] < 128
                                THEN MetaFound[1][k] ELSE 65533
             /\ (\A k \in 1..Len(ret.val) : MetaFound[1][k] < 128) =>
                   ret.val = MetaFound[1]

\* C5 witness: the Title lookup found nothing and returned the empty string.
C5_Witness ==
    /\ MetadataDone
    /\ ret.arg[1] = "Title"
    /\ MetaFound = <<>>
    /\ ret.outcome = "Ok" /\ ret.val = <<>>

\* The native lookup key of a metadata name, as the claim gives it.
ExpectedKey(name) ==
    IF name = "Format" THEN "format"
    ELSE IF name = "Encryption" THEN "encryption"
    ELSE "info:" \o name

\* C10: to_str maps the ten names to ten pairwise distinct keys, Format to
\* "format", Encryption to "encryption", and each of the eight information
\* names to "info:" followed by that name; it is the key metadata passes to
\* the native lookup.
C10_MetadataKeys ==
    /\ \A m \in MetadataName, n \in MetadataName : m /= n => to_str(m) /= to_str(n)
    /\ ret.op = "metadata" =>
          /\ calls[1].fn = "mupdf_lookup_metadata"
          /\ calls[1].args[2] = ExpectedKey(ret.arg[1])
====
